---- MODULE Spec2Model ----
(***************************************************************************)
(* YieldAggregator (packages/stylus/yield-aggregator/src/lib.rs): an       *)
(* owner-gated registry of protocol addresses with an aggregation pass     *)
(* that sums a mock per-protocol yield.                                    *)
(*                                                                         *)
(* An address is the pair of its first 16 bytes (hi) and its last 4 bytes  *)
(* read as a big-endian u32 (lo).  Amounts are counted in units of         *)
(* 10^15 wei (0.001 ETH), so 5000000000000000 wei is 5.                    *)
(* A call that returns Err is reverted by the host: storage is unchanged.  *)
(* The loops convert protocol_count with to::<u32>(), which panics from    *)
(* 2^32 entries on, and the U256 additions wrap at 2^256; the registries   *)
(* explored here stay far below both, so the arithmetic is exact.          *)
(***************************************************************************)
EXTENDS Integers, Sequences, FiniteSets

VARIABLES owner, protocols, protocol_index, protocol_count, last

vars == <<owner, protocols, protocol_index, protocol_count, last>>

\* Highest sample address number; the sample addresses are AddressOf(0..MaxAddr).
MaxAddr == 2

\* The k-th sample address: the upper bytes alternate, the last four bytes count up.
AddressOf(k) == [hi |-> k % 2, lo |-> k]

Addresses == {AddressOf(k) : k \in 0..MaxAddr}

\* Address::ZERO
ZeroAddress == [hi |-> 0, lo |-> 0]

\* msg_sender of a call: any account but the zero address.
Callers == Addresses \ {ZeroAddress}

\* The read operations do not consult msg_sender; their call record carries the
\* zero address in its place.
Anyone == ZeroAddress

\* Option<T> as a sequence of length at most one.
None == <<>>

Some(x) == <<x>>

\* The contract's storage as one value.
Storage(o, ps, idx, cnt) ==
    [owner |-> o, protocols |-> ps, protocol_index |-> idx, protocol_count |-> cnt]

Current == Storage(owner, protocols, protocol_index, protocol_count)

\* A log entry: the event's name and its fields.
Event(name, fields) == [name |-> name, fields |-> fields]

\* The ownership calls that log OwnershipTransferred (in Ownable::_transfer_ownership).
OwnershipCalls == {"constructor", "transfer_ownership", "renounce_ownership"}

\* The events a call logs. ProtocolAdded, ProtocolRemoved and YieldCalculated are
\* declared but no method logs them; the only log is Ownable's, on a successful
\* change of owner, carrying the previous and the new owner.
Emitted(op, caller, args, result) ==
    IF op \in OwnershipCalls /\ result = "Ok"
    THEN <<Event("OwnershipTransferred",
                 <<IF op = "constructor" THEN ZeroAddress ELSE caller,
                   IF op = "renounce_ownership" THEN ZeroAddress ELSE args[1]>>)>>
    ELSE <<>>

\* The record of one call: operation, msg_sender, arguments, Ok or the error, the
\* return value, what the scan of add_protocol/remove_protocol found
\* (found_idx; None when the call has no scan or did not reach it), and the
\* events it logged.
Call(op, caller, args, result, ret, found) ==
    [op |-> op, caller |-> caller, args |-> args, result |-> result, ret |-> ret,
     found |-> found, events |-> Emitted(op, caller, args, result)]

\* StorageVec::get: Some(element) inside the array, None past its end.
StorageGet(ps, i) == IF i < Len(ps) THEN Some(ps[i + 1]) ELSE None

\* only_owner without its check.
OnlyOwnerUnchecked(o, caller) == "Ok"

\* Ownable::only_owner: Ok when msg_sender is the owner.
OnlyOwner(o, caller) == IF caller = o THEN "Ok" ELSE "UnauthorizedAccount"

\* The scan `for i in 0..count { if get(i) == Some(protocol) {..; break} }`,
\* from index i: Some(first matching index) or None.
RECURSIVE FindFrom(_, _, _, _)
FindFrom(ps, cnt, protocol, i) ==
    IF i >= cnt THEN None
    ELSE IF StorageGet(ps, i) = Some(protocol) THEN Some(i)
    ELSE FindFrom(ps, cnt, protocol, i + 1)

\* The scan stopping one element short of the count.
FindShort(ps, cnt, protocol) == FindFrom(ps, cnt - 1, protocol, 0)

Find(ps, cnt, protocol) == FindFrom(ps, cnt, protocol, 0)

\* Yield of a protocol whose seed is 0 mod 3.
Yield0 == 5

\* Yield of a protocol whose seed is 1 mod 3.
Yield1 == 8

\* Yield of every other protocol.
Yield2 == 3

\* u32::from_be_bytes(protocol_bytes[16..20]): the last four bytes.
Seed(protocol) == protocol.lo

\* A mock yield seeded by the user's address.
GetMockYieldByUser(protocol, user) ==
    IF Seed(user) % 3 = 0 THEN Yield0
    ELSE IF Seed(user) % 3 = 1 THEN Yield1
    ELSE Yield2

\* get_mock_yield: one of three amounts, chosen by seed % 3; the user is ignored.
GetMockYield(protocol, user) ==
    IF Seed(protocol) % 3 = 0 THEN Yield0
    ELSE IF Seed(protocol) % 3 = 1 THEN Yield1
    ELSE Yield2

\* The loop with `total_yield = protocol_yield` in place of `+=`.
RECURSIVE TotalYieldAssign(_, _, _, _, _)
TotalYieldAssign(ps, cnt, user, i, total) ==
    IF i >= cnt THEN total
    ELSE IF StorageGet(ps, i) = None THEN TotalYieldAssign(ps, cnt, user, i + 1, total)
    ELSE TotalYieldAssign(ps, cnt, user, i + 1, GetMockYield(ps[i + 1], user))

\* The loop of get_total_yield from index i with the running total.
RECURSIVE TotalYieldFrom(_, _, _, _, _)
TotalYieldFrom(ps, cnt, user, i, total) ==
    IF i >= cnt THEN total
    ELSE IF StorageGet(ps, i) = None THEN TotalYieldFrom(ps, cnt, user, i + 1, total)
    ELSE TotalYieldFrom(ps, cnt, user, i + 1, total + GetMockYield(ps[i + 1], user))

\* get_total_yield on a storage value.
TotalYield(s, user) == TotalYieldFrom(s.protocols, s.protocol_count, user, 0, 0)

\* The loop of get_protocols from index i with the vector built so far.
RECURSIVE ProtocolsFrom(_, _, _, _)
ProtocolsFrom(ps, cnt, i, out) ==
    IF i >= cnt THEN out
    ELSE IF StorageGet(ps, i) = None THEN ProtocolsFrom(ps, cnt, i + 1, out)
    ELSE ProtocolsFrom(ps, cnt, i + 1, Append(out, ps[i + 1]))

\* get_protocols on a storage value.
Protocols(s) == ProtocolsFrom(s.protocols, s.protocol_count, 0, <<>>)

\* get_protocol_count on a storage value.
ProtocolCount(s) == s.protocol_count

\* is_protocol_tracked answering from the index mapping.
IsTrackedByIndex(s, protocol) == s.protocol_index[protocol] # 0

\* is_protocol_tracked on a storage value.
IsTracked(s, protocol) == Find(s.protocols, s.protocol_count, protocol) # None

\* A constructor that accepts any initial owner.
ConstructorResultAnyOwner(initial_owner) == "Ok"

\* The constructor: Ownable::constructor rejects the zero address, then the count is set to 0.
ConstructorResult(initial_owner) == IF initial_owner = ZeroAddress THEN "InvalidOwner" ELSE "Ok"

Constructed == ~(last.op = "constructor" /\ last.result # "Ok")

\* A call without a scan.
Record(op, caller, args, result, ret) ==
    last' = Call(op, caller, args, result, ret, None)

\* found_idx of a mutation: the scan's result, None when the owner check failed.
FoundIdx(s, caller, protocol) ==
    IF OnlyOwner(s.owner, caller) = "Ok" THEN Find(s.protocols, s.protocol_count, protocol)
    ELSE None

Init ==
    \E initial_owner \in Addresses :
        /\ owner = IF ConstructorResult(initial_owner) = "Ok" THEN initial_owner ELSE ZeroAddress
        /\ protocols = <<>>
        /\ protocol_index = [a \in Addresses |-> 0]
        /\ protocol_count = 0
        /\ last = Call("constructor", initial_owner, <<initial_owner>>,
                       ConstructorResult(initial_owner), <<>>, None)

\* add_protocol without the write to protocol_count.
AddEffectStaleCount(s, protocol) ==
    Storage(s.owner,
            Append(s.protocols, protocol),
            [s.protocol_index EXCEPT ![protocol] = s.protocol_count],
            s.protocol_count)

\* add_protocol inserting at the front of the array.
AddEffectPrepend(s, protocol) ==
    Storage(s.owner,
            <<protocol>> \o s.protocols,
            [s.protocol_index EXCEPT ![protocol] = s.protocol_count],
            s.protocol_count + 1)

\* add_protocol storing a position counted from 1.
AddEffectOneBased(s, protocol) ==
    Storage(s.owner,
            Append(s.protocols, protocol),
            [s.protocol_index EXCEPT ![protocol] = s.protocol_count + 1],
            s.protocol_count + 1)

\* Storage after the push/insert/set of add_protocol.
AddEffect(s, protocol) ==
    Storage(s.owner,
            Append(s.protocols, protocol),
            [s.protocol_index EXCEPT ![protocol] = s.protocol_count],
            s.protocol_count + 1)

\* add_protocol without the scan for an existing entry.
AddBodyNoScan(s, protocol) == AddEffect(s, protocol)

\* Storage after add_protocol's body, past the owner check.
AddBody(s, protocol) ==
    IF Find(s.protocols, s.protocol_count, protocol) # None THEN s
    ELSE AddEffect(s, protocol)

\* A pop that drops the first element instead of the last.
PopFront(ps) == IF Len(ps) = 0 THEN ps ELSE Tail(ps)

\* StorageVec::pop: drops the last element, does nothing on an empty array.
Pop(ps) == IF Len(ps) = 0 THEN ps ELSE SubSeq(ps, 1, Len(ps) - 1)

\* remove_protocol without the write to protocol_count.
RemoveEffectStaleCount(s, protocol) ==
    Storage(s.owner,
            Pop(s.protocols),
            [s.protocol_index EXCEPT ![protocol] = 0],
            s.protocol_count)

\* Storage after the pop/insert/set of remove_protocol.
RemoveEffect(s, protocol) ==
    Storage(s.owner,
            Pop(s.protocols),
            [s.protocol_index EXCEPT ![protocol] = 0],
            s.protocol_count - 1)

\* remove_protocol as swap-with-last-and-pop at the found position.
RemoveBodySwap(s, protocol) ==
    IF Find(s.protocols, s.protocol_count, protocol) = None THEN s
    ELSE Storage(s.owner,
                 Pop([s.protocols EXCEPT ![Find(s.protocols, s.protocol_count, protocol)[1] + 1] =
                         s.protocols[Len(s.protocols)]]),
                 [s.protocol_index EXCEPT ![protocol] = 0],
                 s.protocol_count - 1)

\* remove_protocol without the test of found_idx.
RemoveBodyAlways(s, protocol) == RemoveEffect(s, protocol)

\* Storage after remove_protocol's body, past the owner check.
RemoveBody(s, protocol) ==
    IF Find(s.protocols, s.protocol_count, protocol) = None THEN s
    ELSE RemoveEffect(s, protocol)

\* The storage variables take the value s.
Becomes(s) ==
    /\ owner' = s.owner
    /\ protocols' = s.protocols
    /\ protocol_index' = s.protocol_index
    /\ protocol_count' = s.protocol_count

add_protocol(caller, protocol) ==
    /\ Constructed
    /\ Becomes(IF OnlyOwner(owner, caller) = "Ok" THEN AddBody(Current, protocol) ELSE Current)
    /\ last' = Call("add_protocol", caller, <<protocol>>, OnlyOwner(owner, caller), <<>>,
                     FoundIdx(Current, caller, protocol))

remove_protocol(caller, protocol) ==
    /\ Constructed
    /\ Becomes(IF OnlyOwner(owner, caller) = "Ok" THEN RemoveBody(Current, protocol) ELSE Current)
    /\ last' = Call("remove_protocol", caller, <<protocol>>, OnlyOwner(owner, caller), <<>>,
                     FoundIdx(Current, caller, protocol))

get_total_yield(user) ==
    /\ Constructed
    /\ Becomes(Current)
    /\ Record("get_total_yield", Anyone, <<user>>, "Ok", <<TotalYield(Current, user)>>)

\* get_protocols draining the stored array while it copies it.
get_protocols_drain ==
    /\ Constructed
    /\ Becomes(Storage(owner, <<>>, protocol_index, 0))
    /\ Record("get_protocols", Anyone, <<>>, "Ok", Protocols(Current))

get_protocols ==
    /\ Constructed
    /\ Becomes(Current)
    /\ Record("get_protocols", Anyone, <<>>, "Ok", Protocols(Current))

get_protocol_count ==
    /\ Constructed
    /\ Becomes(Current)
    /\ Record("get_protocol_count", Anyone, <<>>, "Ok", <<ProtocolCount(Current)>>)

is_protocol_tracked(protocol) ==
    /\ Constructed
    /\ Becomes(Current)
    /\ Record("is_protocol_tracked", Anyone, <<protocol>>, "Ok", <<IsTracked(Current, protocol)>>)

\* IOwnable::owner
get_owner ==
    /\ Constructed
    /\ Becomes(Current)
    /\ Record("owner", Anyone, <<>>, "Ok", <<owner>>)

\* transfer_ownership without the test for the zero address.
TransferResultAnyOwner(o, caller, new_owner) == OnlyOwner(o, caller)

\* Ownable::transfer_ownership: owner only, and not to the zero address.
TransferResult(o, caller, new_owner) ==
    IF OnlyOwner(o, caller) # "Ok" THEN OnlyOwner(o, caller)
    ELSE IF new_owner = ZeroAddress THEN "InvalidOwner"
    ELSE "Ok"

transfer_ownership(caller, new_owner) ==
    /\ Constructed
    /\ owner' = IF TransferResult(owner, caller, new_owner) = "Ok" THEN new_owner ELSE owner
    /\ UNCHANGED <<protocols, protocol_index, protocol_count>>
    /\ Record("transfer_ownership", caller, <<new_owner>>,
              TransferResult(owner, caller, new_owner), <<>>)

\* Ownable::renounce_ownership: owner only; the owner becomes the zero address.
renounce_ownership(caller) ==
    /\ Constructed
    /\ owner' = IF OnlyOwner(owner, caller) = "Ok" THEN ZeroAddress ELSE owner
    /\ UNCHANGED <<protocols, protocol_index, protocol_count>>
    /\ Record("renounce_ownership", caller, <<>>, OnlyOwner(owner, caller), <<>>)

Next ==
    \/ \E caller \in Callers, protocol \in Addresses : add_protocol(caller, protocol)
    \/ \E caller \in Callers, protocol \in Addresses : remove_protocol(caller, protocol)
    \/ \E user \in Addresses : get_total_yield(user)
    \/ get_protocols
    \/ get_protocol_count
    \/ \E protocol \in Addresses : is_protocol_tracked(protocol)
    \/ get_owner
    \/ \E caller \in Callers, new_owner \in Addresses : transfer_ownership(caller, new_owner)
    \/ \E caller \in Callers : renounce_ownership(caller)

Spec == Init /\ [][Next]_vars

\* Every step is a call, recorded in last'.
IsCall(ops) == last'.op \in ops

\* The storage after the step.
After == Storage(owner', protocols', protocol_index', protocol_count')

\* The protocol argument of the call recorded in a call record.
Arg(c) == c.args[1]

\* How many times a occurs in the sequence s.
Occurrences(s, a) == Cardinality({i \in 1..Len(s) : s[i] = a})

\* The elements of the sequence s.
Elems(s) == {s[i] : i \in 1..Len(s)}

\* The calls that change the registry.
Mutations == {"add_protocol", "remove_protocol"}

\* C1: add_protocol(p) or remove_protocol(p) by a caller that is not the current
\* owner fails with the unauthorized-account error and leaves the list, the
\* count, the index mapping and the owner as they were, for every p.
C1_Unauthorized ==
    [][(IsCall(Mutations) /\ last'.caller # owner) =>
          /\ last'.result = "UnauthorizedAccount"
          /\ Protocols(After) = Protocols(Current)
          /\ ProtocolCount(After) = ProtocolCount(Current)
          /\ protocols' = protocols
          /\ protocol_index' = protocol_index
          /\ owner' = owner]_vars

\* A non-owner's remove_protocol(p) of a tracked p has failed.
C1_Witness ==
    /\ last.op = "remove_protocol"
    /\ last.result = "UnauthorizedAccount"
    /\ last.caller # owner
    /\ IsTracked(Current, Arg(last))

\* C2: the stored protocol_count equals the length of the stored array, so
\* get_protocol_count() equals the length of get_protocols().
C2_CountIsLength ==
    /\ protocol_count = Len(protocols)
    /\ ProtocolCount(Current) = Len(Protocols(Current))

\* A removal that found its protocol has left a non-empty registry behind.
C2_Witness ==
    /\ last.op = "remove_protocol"
    /\ last.found # None
    /\ protocol_count > 0

\* C3: no address appears twice in the list returned by get_protocols().
C3_NoDuplicates ==
    \A a \in Addresses : Occurrences(Protocols(Current), a) <= 1

\* The owner has added an address that was already in a list of two or more.
C3_Witness ==
    /\ last.op = "add_protocol"
    /\ last.result = "Ok"
    /\ last.found # None
    /\ Len(Protocols(Current)) >= 2

\* C4: after the owner's remove_protocol(p) on a registry that tracked p, p is
\* no longer tracked and does not appear in get_protocols(), whatever position
\* p held.
C4_RemovedIsUntracked ==
    (last.op = "remove_protocol" /\ last.result = "Ok" /\ last.found # None) =>
        /\ ~IsTracked(Current, Arg(last))
        /\ Arg(last) \notin Elems(Protocols(Current))

\* C5: the owner's add_protocol(p) right after a successful add_protocol(p)
\* succeeds and leaves the list, the index mapping and the count as the first
\* call left them; one add_protocol raises the count by at most 1, so the two
\* calls together raise it by at most 1.
C5_AddTwice ==
    [][/\ IsCall({"add_protocol"}) =>
            ProtocolCount(After) <= ProtocolCount(Current) + 1
       /\ (/\ last.op = "add_protocol"
            /\ last.result = "Ok"
            /\ IsCall({"add_protocol"})
            /\ Arg(last') = Arg(last)
            /\ last'.caller = owner) =>
               /\ last'.result = "Ok"
               /\ Protocols(After) = Protocols(Current)
               /\ protocols' = protocols
               /\ protocol_index' = protocol_index
               /\ protocol_count' = protocol_count]_vars

\* The owner's add_protocol(p) has found p where the preceding append put it:
\* last in the list, with its index entry pointing there.
C5_Witness ==
    /\ last.op = "add_protocol"
    /\ last.result = "Ok"
    /\ last.found = Some(protocol_count - 1)
    /\ protocol_count >= 2
    /\ protocol_index[Arg(last)] = protocol_count - 1

\* C6: right after a successful add_protocol(p), is_protocol_tracked(p) is true
\* and p appears exactly once in get_protocols().
C6_MembershipAfterAdd ==
    (last.op = "add_protocol" /\ last.result = "Ok") =>
        /\ IsTracked(Current, Arg(last))
        /\ Occurrences(Protocols(Current), Arg(last)) = 1

\* The owner has appended a new address to a non-empty list.
C6_Witness ==
    /\ last.op = "add_protocol"
    /\ last.result = "Ok"
    /\ last.found = None
    /\ Len(Protocols(Current)) >= 2

\* C7: the owner's remove_protocol(p) that finds p drops exactly the last
\* element of the list, sets protocol_index[p] to zero, lowers the count by
\* exactly 1 and leaves every other element and index entry alone; a p that
\* was not last stays tracked and the former last entry becomes untracked.
C7_RemovePopsLast ==
    [][(IsCall({"remove_protocol"}) /\ last'.caller = owner
          /\ IsTracked(Current, Arg(last'))) =>
          /\ last'.result = "Ok"
          /\ Len(protocols') = Len(protocols) - 1
          /\ \A i \in 1..Len(protocols') : protocols'[i] = protocols[i]
          /\ Len(Protocols(After)) = Len(Protocols(Current)) - 1
          /\ \A i \in 1..Len(Protocols(After)) :
                 Protocols(After)[i] = Protocols(Current)[i]
          /\ protocol_index'[Arg(last')] = 0
          /\ \A a \in Addresses \ {Arg(last')} : protocol_index'[a] = protocol_index[a]
          /\ protocol_count' = protocol_count - 1
          /\ owner' = owner
          /\ protocols[Len(protocols)] # Arg(last') =>
                 /\ IsTracked(After, Arg(last'))
                 /\ ~IsTracked(After, protocols[Len(protocols)])]_vars

\* The owner has removed a protocol that was not last: it is still tracked.
C7_Witness ==
    /\ last.op = "remove_protocol"
    /\ last.result = "Ok"
    /\ last.found # None
    /\ IsTracked(Current, Arg(last))

\* C8: the owner's remove_protocol(p) with p not in the list, and the owner's
\* add_protocol(p) with p already in the list, return success and change
\* nothing: list, index mapping, count and owner.
C8_NoOps ==
    [][(/\ last'.caller = owner
        /\ \/ IsCall({"remove_protocol"}) /\ Arg(last') \notin Elems(Protocols(Current))
           \/ IsCall({"add_protocol"}) /\ Arg(last') \in Elems(Protocols(Current))) =>
          /\ last'.result = "Ok"
          /\ Protocols(After) = Protocols(Current)
          /\ protocols' = protocols
          /\ protocol_index' = protocol_index
          /\ protocol_count' = protocol_count
          /\ owner' = owner]_vars

\* The owner has called remove_protocol(p) on a non-empty list without p.
C8_Witness ==
    /\ last.op = "remove_protocol"
    /\ last.result = "Ok"
    /\ last.caller = owner
    /\ last.found = None
    /\ protocol_count > 0

\* The sum of lookup(p, u) over the sequence s, in order.
RECURSIVE SumOfYields(_, _)
SumOfYields(s, u) ==
    IF s = <<>> THEN 0 ELSE GetMockYield(Head(s), u) + SumOfYields(Tail(s), u)

\* C9: get_total_yield(u) is the sum, in list order, of the mock yield of each
\* p in get_protocols(); it is 0 for an empty registry and 13 units for a
\* registry of two protocols whose yields are 5 and 8 units; and that is the
\* value a get_total_yield call returns.
C9_SumLaw ==
    /\ \A u \in Addresses :
          /\ TotalYield(Current, u) = SumOfYields(Protocols(Current), u)
          /\ Protocols(Current) = <<>> => TotalYield(Current, u) = 0
          /\ (/\ Len(Protocols(Current)) = 2
              /\ Seed(Protocols(Current)[1]) % 3 = 0
              /\ Seed(Protocols(Current)[2]) % 3 = 1) => TotalYield(Current, u) = 13
    /\ last.op = "get_total_yield" =>
          last.ret = Some(SumOfYields(Protocols(Current), Arg(last)))

\* get_total_yield has returned 13 on a registry of a 5-unit and an 8-unit protocol.
C9_Witness ==
    /\ last.op = "get_total_yield"
    /\ last.ret = Some(13)
    /\ Len(Protocols(Current)) = 2
    /\ GetMockYield(Protocols(Current)[1], Arg(last)) = 5
    /\ GetMockYield(Protocols(Current)[2], Arg(last)) = 8

\* C11: a successful add_protocol that adds a protocol logs exactly one
\* ProtocolAdded, a successful remove_protocol that removes one logs exactly one
\* ProtocolRemoved, every get_total_yield logs exactly one YieldCalculated
\* carrying user, total and protocol count, and a no-op or failed add or remove
\* logs nothing.
C11_Events ==
    /\ (last.op = "add_protocol" /\ last.result = "Ok" /\ last.found = None) =>
          /\ Len(last.events) = 1
          /\ last.events[1].name = "ProtocolAdded"
    /\ (last.op = "remove_protocol" /\ last.result = "Ok" /\ last.found # None) =>
          /\ Len(last.events) = 1
          /\ last.events[1].name = "ProtocolRemoved"
    /\ last.op = "get_total_yield" =>
          /\ Len(last.events) = 1
          /\ last.events[1].name = "YieldCalculated"
          /\ last.events[1].fields = <<Arg(last), last.ret[1], ProtocolCount(Current)>>
    /\ (/\ last.op \in Mutations
        /\ \/ last.result # "Ok"
           \/ last.op = "add_protocol" /\ last.found # None
           \/ last.op = "remove_protocol" /\ last.found = None) =>
          last.events = <<>>

\* C12: the owner's add_protocol(p) with p not in the list puts p at the end
\* (position = old count), sets protocol_index[p] to the old count, raises the
\* count by exactly 1 and leaves every existing element in place; so
\* add_protocol(P2) on the registry a first add_protocol(P1) has made, P1 # P2,
\* gives a count of 2 and the list [P1, P2].
C12_InsertionOrder ==
    [][(IsCall({"add_protocol"}) /\ last'.caller = owner
          /\ Arg(last') \notin Elems(Protocols(Current))) =>
          /\ last'.result = "Ok"
          /\ Len(Protocols(After)) = Len(Protocols(Current)) + 1
          /\ Protocols(After)[ProtocolCount(Current) + 1] = Arg(last')
          /\ \A i \in 1..Len(Protocols(Current)) :
                 Protocols(After)[i] = Protocols(Current)[i]
          /\ protocol_index'[Arg(last')] = ProtocolCount(Current)
          /\ \A a \in Addresses \ {Arg(last')} : protocol_index'[a] = protocol_index[a]
          /\ ProtocolCount(After) = ProtocolCount(Current) + 1
          /\ (/\ last.op = "add_protocol"
              /\ last.result = "Ok"
              /\ last.found = None
              /\ ProtocolCount(Current) = 1) =>
                 /\ ProtocolCount(After) = 2
                 /\ Protocols(After) = <<Arg(last), Arg(last')>>]_vars

\* The owner has appended a second protocol: it is last and its index entry is 1.
C12_Witness ==
    /\ last.op = "add_protocol"
    /\ last.result = "Ok"
    /\ last.found = None
    /\ ProtocolCount(Current) = 2
    /\ Protocols(Current)[2] = Arg(last)
    /\ protocol_index[Arg(last)] = 1

\* The read operations.
Reads == {"get_total_yield", "get_protocols", "get_protocol_count", "is_protocol_tracked"}

\* C13: get_total_yield, get_protocols, get_protocol_count and
\* is_protocol_tracked leave the list, the index mapping, the count and the
\* owner unchanged, and the same read called twice in a row returns the same
\* result.
C13_ReadsArePure ==
    [][/\ IsCall(Reads) =>
            /\ last'.result = "Ok"
            /\ protocols' = protocols
            /\ protocol_index' = protocol_index
            /\ protocol_count' = protocol_count
            /\ owner' = owner
       /\ (last.op \in Reads /\ last'.op = last.op /\ last'.args = last.args) =>
            last'.ret = last.ret]_vars

\* get_protocols has returned a list of two or more and storage still holds it.
C13_Witness ==
    /\ last.op = "get_protocols"
    /\ Len(last.ret) >= 2
    /\ last.ret = protocols
    /\ protocol_count = Len(last.ret)

\* C14: is_protocol_tracked(p) is true exactly when p is an element of the
\* list get_protocols() returns, for every address p, and that is what a call
\* of is_protocol_tracked returns.
C14_TrackedIffListed ==
    /\ \A a \in Addresses : IsTracked(Current, a) <=> a \in Elems(Protocols(Current))
    /\ last.op = "is_protocol_tracked" =>
          last.ret = Some(Arg(last) \in Elems(Protocols(Current)))

\* is_protocol_tracked has returned true for a listed protocol whose index
\* entry is zero although it is not first.
C14_Witness ==
    /\ last.op = "is_protocol_tracked"
    /\ last.ret = Some(TRUE)
    /\ protocol_index[Arg(last)] = 0
    /\ Protocols(Current)[1] # Arg(last)

\* C15: whenever a call takes an address out of the protocols list, that
\* address's protocol_index entry is zero after the call.
C15_IndexResetOnRemoval ==
    [][\A a \in Addresses :
          (a \in Elems(Protocols(Current)) /\ a \notin Elems(Protocols(After))) =>
              protocol_index'[a] = 0]_vars

\* C16: a successful transfer_ownership(n) by the owner makes n the owner, after
\* which add_protocol and remove_protocol fail with the unauthorized-account
\* error for the previous owner (when it is not n) and succeed for n;
\* transfer_ownership to the zero address by the owner fails with InvalidOwner
\* and changes nothing; the owner's renounce_ownership succeeds and leaves no
\* owner, and from then on there is never an owner again and every
\* add_protocol and remove_protocol fails, leaving list, index mapping and
\* count unchanged.
C16_OnlyCurrentOwner ==
    [][/\ (IsCall({"transfer_ownership"}) /\ last'.caller = owner) =>
            IF Arg(last') = ZeroAddress
            THEN /\ last'.result = "InvalidOwner"
                 /\ After = Current
            ELSE /\ last'.result = "Ok"
                 /\ owner' = Arg(last')
       /\ (/\ last.op = "transfer_ownership"
            /\ last.result = "Ok"
            /\ IsCall(Mutations)) =>
               /\ (last'.caller = last.caller /\ last.caller # Arg(last)) =>
                      /\ last'.result = "UnauthorizedAccount"
                      /\ After = Current
               /\ last'.caller = Arg(last) => last'.result = "Ok"
       /\ (IsCall({"renounce_ownership"}) /\ last'.caller = owner) =>
            /\ last'.result = "Ok"
            /\ owner' = ZeroAddress
       /\ (owner = ZeroAddress /\ Constructed) =>
            /\ owner' = ZeroAddress
            /\ IsCall(Mutations) => last'.result = "UnauthorizedAccount"
            /\ protocols' = protocols
            /\ protocol_index' = protocol_index
            /\ protocol_count' = protocol_count]_vars

\* After the owner renounced, add_protocol on the non-empty registry has failed.
C16_Witness ==
    /\ owner = ZeroAddress
    /\ last.op = "add_protocol"
    /\ last.result = "UnauthorizedAccount"
    /\ protocol_count > 0

\* C17: a constructor call with a non-zero initial_owner succeeds and leaves
\* owner() == initial_owner, a count of 0, an empty list, no tracked protocol
\* and a total yield of 0 for every user; with the zero address it fails with
\* InvalidOwner.
C17_Construction ==
    last.op = "constructor" =>
        /\ Arg(last) # ZeroAddress =>
              /\ last.result = "Ok"
              /\ owner = Arg(last)
              /\ ProtocolCount(Current) = 0
              /\ Protocols(Current) = <<>>
              /\ \A a \in Addresses : ~IsTracked(Current, a)
              /\ \A u \in Addresses : TotalYield(Current, u) = 0
        /\ Arg(last) = ZeroAddress => last.result = "InvalidOwner"

\* The constructor has succeeded for a non-zero initial owner.
C17_Witness ==
    /\ last.op = "constructor"
    /\ last.result = "Ok"
    /\ Arg(last) # ZeroAddress
    /\ owner = Arg(last)

\* The lists p and q relate as the lists before and after one call may: q is p,
\* p with one element appended, or p without its last element; and an address
\* that is in both is at the same position in both.
StableStep(p, q) ==
    /\ \/ q = p
       \/ Len(q) = Len(p) + 1 /\ SubSeq(q, 1, Len(p)) = p
       \/ Len(q) = Len(p) - 1 /\ SubSeq(p, 1, Len(q)) = q
    /\ \A i \in 1..Len(p) : \A j \in 1..Len(q) : p[i] = q[j] => i = j

\* C18: after any single call the list is the old list (as it is when the call
\* writes neither the array nor the count), the old list with one element
\* appended, or the old list without its last element; so an address tracked
\* before and after the call is at the same position.
C18_PositionsStable ==
    [][\/ protocols' = protocols /\ protocol_count' = protocol_count
       \/ StableStep(Protocols(Current), Protocols(After))]_vars

\* The owner has removed the first of several protocols: it is still first.
C18_Witness ==
    /\ last.op = "remove_protocol"
    /\ last.result = "Ok"
    /\ last.found = Some(0)
    /\ protocol_count >= 1
    /\ Protocols(Current)[1] = Arg(last)

\* C19: for every address p in the list at position i (from 0),
\* protocol_index[p] is i or 0, and so is below protocol_count.
C19_IndexCacheBound ==
    \A i \in 1..Len(Protocols(Current)) :
        /\ protocol_index[Protocols(Current)[i]] \in {i - 1, 0}
        /\ protocol_index[Protocols(Current)[i]] < ProtocolCount(Current)

\* A tracked protocol that is not first has an index entry of zero.
C19_Witness ==
    \E i \in 2..Len(Protocols(Current)) : protocol_index[Protocols(Current)[i]] = 0

\* The three amounts of the mock yield, by the last four address bytes modulo 3.
AmountFor(a) == IF a.lo % 3 = 0 THEN 5 ELSE IF a.lo % 3 = 1 THEN 8 ELSE 3

\* C20: get_total_yield gives every user the same total on the same list,
\* whoever calls, because the yield of a protocol is one of three fixed
\* amounts chosen by the last four bytes of the protocol's address modulo 3.
C20_YieldIgnoresUser ==
    /\ \A u1, u2 \in Addresses : TotalYield(Current, u1) = TotalYield(Current, u2)
    /\ \A a, u \in Addresses : GetMockYield(a, u) = AmountFor(a)
    /\ last.op = "get_total_yield" =>
          \A u \in Addresses : last.ret = Some(TotalYield(Current, u))

\* get_total_yield has returned, for one user, the non-zero total that a user
\* with another seed gets.
C20_Witness ==
    /\ last.op = "get_total_yield"
    /\ last.ret[1] > 0
    /\ \E u \in Addresses :
          /\ Seed(u) % 3 # Seed(Arg(last)) % 3
          /\ last.ret = Some(TotalYield(Current, u))

====
